---- MODULE Spec2Model ----
(***************************************************************************)
(* Flywheel position controller (flywheel.py) and the three slot           *)
(* calibration routines built on it (utils.py, testing.py,                 *)
(* configure_fw.py).                                                       *)
(*                                                                         *)
(* The controller keeps a belief, current_slot, about which of slot_count  *)
(* slots of a forward-only rotating wheel is in the beam.  The wheel       *)
(* itself is modelled by phys: the number of positions the wheel has       *)
(* moved forward from where it stood when the controller was constructed,  *)
(* modulo slot_count.  The code never reads the wheel, so this frame       *)
(* loses nothing.                                                          *)
(***************************************************************************)
EXTENDS Integers, Sequences, FiniteSets, TLC

VARIABLES
    slot_count,     \* FlywheelController.slot_count
    current_slot,   \* FlywheelController.current_slot (the belief)
    phys,           \* wheel displacement since construction, 0..slot_count-1
    pc,             \* where the single thread of control is
    target_slot,    \* go_to_slot's argument while its loop runs (else 0)
    count,          \* step's argument while its loop runs (else 0)
    i,              \* loop index of step's for loop / of the sampling
                    \*   loop while it runs (else 0)
    ret,            \* outcome of the last completed call
    pulses,         \* history: pulses issued by the current call (or the
                    \*   current run of consecutive _pulse_once calls)
    entry_slot,     \* history: current_slot when that call (run) started
    entry_phys,     \* history: phys when that call (run) started
    impl,           \* which calibration routine runs ("none": plain API use)
    measurements,   \* utils.py measurements / configure_fw.py L
    max_power,      \* testing.py max_power / configure_fw.py max
    slot_1,         \* the slot calibration selected
    samples,        \* history: every sample taken, with belief and wheel
    mirror_phys,    \* history: where the wheel stood when calibration
                    \*   ended (-1: no calibration has ended)
    th,             \* per thread sharing one controller: where it is in
                    \*   _pulse_once / go_to_slot, and its locals
    streaming,      \* CCS_Spectrometer.streaming
    stop_event,     \* CCS_Spectrometer._stop_event is set
    scan_thread,    \* CCS_Spectrometer.scan_thread (0: None)
    mpc,            \* where the caller of the spectrometer is
    workers,        \* per polling thread: where it is in loop(), and the
                    \*   callback its closure holds
    cb_arg,         \* the callback argument of the start that spawns
    last            \* history: the caller's last completed call

vars == <<slot_count, current_slot, phys, pc, target_slot, count, i, ret,
          pulses, entry_slot, entry_phys, impl, measurements, max_power,
          slot_1, samples, mirror_phys, th, streaming, stop_event,
          scan_thread, mpc, workers, cb_arg, last>>

calVars == <<impl, measurements, max_power, slot_1, samples, mirror_phys>>

\* the state of the parts that the single-threaded controller and the
\* calibration routines do not touch
streamVars == <<streaming, stop_event, scan_thread, mpc, workers, cb_arg,
                last>>

otherVars == <<th, streamVars>>

----------------------------------------------------------------------------
(* Bounds of the model *)

\* slot counts 1..MaxSlots are explored, plus the constructor's default
MaxSlots == 4

\* caller-supplied slot numbers range from 1-Slack to slot_count+Slack
Slack == 1

\* step counts range over 0..StepRounds*slot_count+1
StepRounds == 2

(* Program constants *)

\* slot_count=6 in FlywheelController.__init__
DefaultSlotCount == 6

\* initial_slot=1 in FlywheelController.__init__ and in both scripts
DefaultInitialSlot == 1

SlotCounts == (1..MaxSlots) \cup {DefaultSlotCount}

\* slot numbers a caller may pass: valid ones and out-of-range ones
SlotArgs(n) == (1 - Slack)..(n + Slack)

StepCounts(n) == 0..(StepRounds * n + 1)

\* power meter readings (PM100D.get_power returns any double): a negative
\* one, zero and two distinct positive ones
Powers == {-1, 0, 1, 2}

----------------------------------------------------------------------------
(* flywheel.py: FlywheelController *)

\* off-by-one wrap: slot_count is never reached
NextSlotWrapEarly(c) == IF c + 1 >= slot_count THEN 1 ELSE c + 1

\* _pulse_once, lines 34-36: increment and wrap
NextSlot(c) == IF c + 1 > slot_count THEN 1 ELSE c + 1

\* the wheel after one trigger pulse: exactly one slot forward
PhysNext(p) == (p + 1) % slot_count

\* k sequential _pulse_once calls applied to belief s
RECURSIVE PulseN(_, _)
PulseN(s, k) == IF k = 0 THEN s ELSE PulseN(NextSlot(s), k - 1)

\* accepts slot 0
ValidFromZero(s) == 0 <= s /\ s <= slot_count

\* the range test of go_to_slot (line 43) and reset_slot (line 65)
Valid(s) == 1 <= s /\ s <= slot_count

\* the history counter of pulses saturates so that it stays finite
PulseCap == 2 * slot_count + 1
Counted(p) == IF p < PulseCap THEN p + 1 ELSE p

Return(o, a, v) == [op |-> o, kind |-> "return", arg |-> a, val |-> v]
Raise(o, a) == [op |-> o, kind |-> "ValueError", arg |-> a, val |-> 0]
Running(o, a) == [op |-> o, kind |-> "running", arg |-> a, val |-> 0]

\* the threads that may share one controller
Threads == {1, 2}

\* a thread that is not inside any method of the controller
ThreadIdle(ran, bad) ==
    [pc |-> "idle", op |-> "none", target |-> 0, tmp |-> 0,
     ran |-> ran, bad |-> bad]

NoThreads == [t \in Threads |-> ThreadIdle(FALSE, FALSE)]

\* polling threads are numbered in the order they are created; no more
\* than MaxThreads are created
MaxThreads == 3

WorkerIds == 1..MaxThreads

\* the callbacks a caller may pass to start_continuous_stream
Callbacks == {"cb1", "cb2"}

\* CCS_Spectrometer.__init__, lines 16-18
StreamInit ==
    /\ streaming = FALSE
    /\ stop_event = FALSE
    /\ scan_thread = 0
    /\ mpc = "idle"
    /\ workers = [w \in WorkerIds |-> [pc |-> "unborn", cb |-> "none"]]
    /\ cb_arg = "none"
    /\ last = [op |-> "__init__", effect |-> "none", cb |-> "none"]

\* FlywheelController(slot_count=n, initial_slot=s): nothing is validated
Construct(n, s) ==
    /\ slot_count = n
    /\ current_slot = s
    /\ phys = 0
    /\ target_slot = 0
    /\ count = 0
    /\ i = 0
    /\ ret = Return("__init__", s, 0)
    /\ pulses = 0
    /\ entry_slot = s
    /\ entry_phys = 0

Init ==
    /\ \E n \in SlotCounts : \E s \in SlotArgs(n) : Construct(n, s)
    /\ pc = "idle"
    /\ impl = "none"
    /\ measurements = << >>
    /\ max_power = 0
    /\ slot_1 = 0
    /\ samples = << >>
    /\ mirror_phys = -1
    /\ th = NoThreads
    /\ StreamInit

\* the body of _pulse_once: one trigger pulse (lines 28-31), then increment
\* and wrap (lines 34-36)
PulseBody ==
    /\ phys' = PhysNext(phys)
    /\ current_slot' = NextSlot(current_slot)

\* _pulse_once called from inside go_to_slot, step or calibration
Pulse ==
    /\ PulseBody
    /\ pulses' = Counted(pulses)

\* history kept at the start of a call
Enter ==
    /\ pulses' = 0
    /\ entry_slot' = current_slot
    /\ entry_phys' = phys

\* a direct call of _pulse_once; consecutive calls form a run
pulse_once ==
    /\ pc = "idle"
    /\ PulseBody
    /\ IF ret.op = "_pulse_once" /\ pulses < 2 * slot_count
         THEN pulses' = pulses + 1 /\ UNCHANGED <<entry_slot, entry_phys>>
         ELSE pulses' = 1 /\ entry_slot' = current_slot /\ entry_phys' = phys
    /\ ret' = Return("_pulse_once", 0, 0)
    /\ UNCHANGED <<slot_count, pc, target_slot, count, i>>
    /\ UNCHANGED calVars
    /\ UNCHANGED otherVars

\* go_to_slot(t), lines 43-44: the range test, before any motion; the
\* ValueError leaves the caller at raised_pc
GoToSlotCall(t, raised_pc) ==
    /\ Enter
    /\ IF Valid(t)
         THEN /\ pc' = "go_to_slot"
              /\ target_slot' = t
              /\ ret' = Running("go_to_slot", t)
         ELSE /\ pc' = raised_pc
              /\ ret' = Raise("go_to_slot", t)
              /\ UNCHANGED target_slot
    /\ UNCHANGED <<slot_count, current_slot, phys, count, i>>

\* go_to_slot(t) called by a user of the controller
go_to_slot(t) ==
    /\ pc = "idle"
    /\ GoToSlotCall(t, "idle")
    /\ UNCHANGED calVars
    /\ UNCHANGED otherVars

\* go_to_slot, lines 46-47: one iteration of the while loop
go_to_slot_loop ==
    /\ pc = "go_to_slot"
    /\ current_slot # target_slot
    /\ Pulse
    /\ UNCHANGED <<slot_count, pc, target_slot, count, i, ret,
                   entry_slot, entry_phys>>
    /\ UNCHANGED calVars
    /\ UNCHANGED otherVars

\* go_to_slot, line 51: the loop has ended, return current_slot
go_to_slot_return ==
    /\ pc = "go_to_slot"
    /\ current_slot = target_slot
    /\ ret' = Return("go_to_slot", target_slot, current_slot)
    /\ pc' = IF impl = "none" THEN "idle" ELSE "cal_reset"
    /\ target_slot' = 0
    /\ UNCHANGED <<slot_count, current_slot, phys, count, i,
                   pulses, entry_slot, entry_phys>>
    /\ UNCHANGED calVars
    /\ UNCHANGED otherVars

\* no modulo: range(count)
StepRangeNoMod(c) == c

\* step, line 55: range(count % self.slot_count)
StepRange(c) == c % slot_count

\* step(c): enter the for loop
step(c) ==
    /\ pc = "idle"
    /\ Enter
    /\ pc' = "step"
    /\ count' = c
    /\ i' = 0
    /\ ret' = Running("step", c)
    /\ UNCHANGED <<slot_count, current_slot, phys, target_slot>>
    /\ UNCHANGED calVars
    /\ UNCHANGED otherVars

\* step, lines 55-58: one iteration of the for loop
step_loop ==
    /\ pc = "step"
    /\ i < StepRange(count)
    /\ Pulse
    /\ i' = i + 1
    /\ UNCHANGED <<slot_count, pc, target_slot, count, ret,
                   entry_slot, entry_phys>>
    /\ UNCHANGED calVars
    /\ UNCHANGED otherVars

\* step: the range is exhausted
step_return ==
    /\ pc = "step"
    /\ i >= StepRange(count)
    /\ pc' = "idle"
    /\ ret' = Return("step", count, 0)
    /\ count' = 0
    /\ i' = 0
    /\ UNCHANGED <<slot_count, current_slot, phys, target_slot,
                   pulses, entry_slot, entry_phys>>
    /\ UNCHANGED calVars
    /\ UNCHANGED otherVars

\* get_current_slot, lines 60-61
get_current_slot ==
    /\ pc = "idle"
    /\ Enter
    /\ ret' = Return("get_current_slot", 0, current_slot)
    /\ UNCHANGED <<slot_count, current_slot, phys, pc, target_slot, count, i>>
    /\ UNCHANGED calVars
    /\ UNCHANGED otherVars

\* a reset that ignores its argument
ResetValueOne(k) == 1

\* reset_slot, line 67: the value assigned to current_slot
ResetValue(k) == k

\* reset_slot(k), lines 63-67
reset_slot(k) ==
    /\ pc = "idle"
    /\ Enter
    /\ IF Valid(k)
         THEN /\ current_slot' = ResetValue(k)
              /\ ret' = Return("reset_slot", k, 0)
         ELSE /\ ret' = Raise("reset_slot", k)
              /\ UNCHANGED current_slot
    /\ UNCHANGED <<slot_count, phys, pc, target_slot, count, i>>
    /\ UNCHANGED calVars
    /\ UNCHANGED otherVars

Next ==
    \/ pulse_once
    \/ \E t \in SlotArgs(slot_count) : go_to_slot(t)
    \/ go_to_slot_loop
    \/ go_to_slot_return
    \/ \E c \in StepCounts(slot_count) : step(c)
    \/ step_loop
    \/ step_return
    \/ get_current_slot
    \/ \E k \in SlotArgs(slot_count) : reset_slot(k)

Spec == Init /\ [][Next]_vars

----------------------------------------------------------------------------
(* Calibration: utils.py configure_flywheel_with_powermeter, the CONFIGURE *)
(* FLYWHEEL block of testing.py, and configure_fw.py                       *)

Impls == {"utils", "testing", "configure_fw"}

\* the first element of seq, from index k on, whose power exceeds best's:
\* Python's max(seq, key=lambda x: x[1]) and the scan of configure_fw.py
\* both keep the earlier element on a tie
RECURSIVE MaxByPower(_, _, _)
MaxByPower(seq, k, best) ==
    IF k > Len(seq) THEN best
    ELSE MaxByPower(seq, k + 1, IF seq[k][2] > best[2] THEN seq[k] ELSE best)

\* utils.py line 28: max(measurements, key=lambda x: x[1])
UtilsMax(seq) == MaxByPower(seq, 2, seq[1])

\* configure_fw.py lines 13-16: start from L[0], scan all of L with j > max
ConfigureFwMax(seq) == MaxByPower(seq, 1, seq[1])

\* The state when the sampling loop is about to start.  The two scripts
\* construct FlywheelController(initial_slot=1); the function of utils.py
\* is handed any controller.
InitCal ==
    /\ impl \in Impls
    /\ IF impl = "utils"
         THEN \E n \in SlotCounts : \E s \in SlotArgs(n) : Construct(n, s)
         ELSE Construct(DefaultSlotCount, DefaultInitialSlot)
    /\ pc = "cal_loop"
    /\ measurements = << >>
    /\ max_power = 0
    /\ slot_1 = IF impl = "testing" THEN 1 ELSE 0
    /\ samples = << >>
    /\ mirror_phys = -1
    /\ th = NoThreads
    /\ StreamInit

\* one iteration of the sampling loop with power reading p:
\* utils.py lines 21-25, testing.py lines 35-40, configure_fw.py lines 8-10
cal_sample(p) ==
    /\ pc = "cal_loop"
    /\ i < slot_count
    /\ IF impl = "testing"
         THEN /\ IF p > max_power
                   THEN max_power' = p /\ slot_1' = current_slot
                   ELSE UNCHANGED <<max_power, slot_1>>
              /\ UNCHANGED measurements
         ELSE /\ measurements' = Append(measurements, <<current_slot, p>>)
              /\ UNCHANGED <<max_power, slot_1>>
    /\ samples' = Append(samples,
                         [slot |-> current_slot, phys |-> phys, power |-> p])
    /\ Pulse
    /\ i' = i + 1
    /\ UNCHANGED <<slot_count, pc, target_slot, count, ret,
                   entry_slot, entry_phys, impl, mirror_phys>>
    /\ UNCHANGED otherVars

\* the loop is over; pick the slot: utils.py line 28, configure_fw.py lines
\* 13-16; testing.py has picked it inside the loop
cal_select ==
    /\ pc = "cal_loop"
    /\ i >= slot_count
    /\ pc' = "cal_go_to"
    /\ i' = 0
    /\ IF impl = "utils"
         THEN /\ slot_1' = UtilsMax(measurements)[1]
              /\ UNCHANGED max_power
         ELSE IF impl = "configure_fw"
         THEN /\ slot_1' = ConfigureFwMax(measurements)[1]
              /\ max_power' = ConfigureFwMax(measurements)[2]
         ELSE UNCHANGED <<max_power, slot_1>>
    /\ UNCHANGED <<slot_count, current_slot, phys, target_slot, count, ret,
                   pulses, entry_slot, entry_phys, impl, measurements,
                   samples, mirror_phys>>
    /\ UNCHANGED otherVars

\* fw.go_to_slot(slot_1): utils.py line 29, testing.py line 41,
\* configure_fw.py line 18; a ValueError ends the calibration
cal_go_to ==
    /\ pc = "cal_go_to"
    /\ GoToSlotCall(slot_1, "cal_raised")
    /\ UNCHANGED calVars
    /\ UNCHANGED otherVars

\* the line that re-anchors the numbering is missing
CalAnchorMissing == current_slot

\* the number given to the selected slot: utils.py line 30, testing.py
\* line 42, configure_fw.py line 21
CalAnchor == 1

\* the selected slot becomes slot 1: fw.current_slot = 1 (utils.py line 30,
\* configure_fw.py line 21) or fw.reset_slot(1) (testing.py line 42)
cal_reset ==
    /\ pc = "cal_reset"
    /\ IF impl = "testing"
         THEN IF Valid(CalAnchor)
                THEN current_slot' = ResetValue(CalAnchor) /\ pc' = "cal_done"
                ELSE UNCHANGED current_slot /\ pc' = "cal_raised"
         ELSE current_slot' = CalAnchor /\ pc' = "cal_done"
    /\ ret' = IF pc' = "cal_done" THEN Return("calibration", slot_1, 0)
                                ELSE Raise("reset_slot", CalAnchor)
    /\ UNCHANGED <<slot_count, phys, target_slot, count, i,
                   pulses, entry_slot, entry_phys>>
    /\ UNCHANGED calVars
    /\ UNCHANGED otherVars

\* the calibration routine is over (utils.py line 32, testing.py line 43,
\* configure_fw.py line 21): the controller is used as before, the
\* routine's own variables are not read again
cal_exit ==
    /\ pc = "cal_done"
    /\ pc' = "idle"
    /\ impl' = "none"
    /\ measurements' = << >>
    /\ max_power' = 0
    /\ slot_1' = 0
    /\ samples' = << >>
    /\ mirror_phys' = phys
    /\ UNCHANGED <<slot_count, current_slot, phys, target_slot, count, i, ret,
                   pulses, entry_slot, entry_phys>>
    /\ UNCHANGED otherVars

\* calibration, followed by go_to_slot and step calls (testing.py lines
\* 66-111, configure_fw.py lines 24-27)
NextCal ==
    \/ \E p \in Powers : cal_sample(p)
    \/ cal_select
    \/ cal_go_to
    \/ go_to_slot_loop
    \/ go_to_slot_return
    \/ cal_reset
    \/ cal_exit
    \/ \E t \in SlotArgs(slot_count) : go_to_slot(t)
    \/ \E c \in StepCounts(slot_count) : step(c)
    \/ step_loop
    \/ step_return

SpecCal == InitCal /\ [][NextCal]_vars

\* the lifetime of a controller: used directly, or calibrated and then used
InitLife == Init \/ InitCal

NextLife ==
    \/ Next
    \/ \E p \in Powers : cal_sample(p)
    \/ cal_select
    \/ cal_go_to
    \/ cal_reset
    \/ cal_exit

SpecLife == InitLife /\ [][NextLife]_vars

----------------------------------------------------------------------------
(* flywheel.py with a faulting device: the generator raises inside         *)
(* _pulse_once                                                             *)

Fault(o, a) == [op |-> o, kind |-> "DeviceFault", arg |-> a, val |-> 0]

\* a _pulse_once that increments before it talks to the generator
FaultedSlotIncremented(c) == NextSlot(c)

\* current_slot after a _pulse_once in which one of lines 28-31 raised:
\* the increment of line 34 is not reached
FaultedSlot(c) == c

\* go_to_slot, lines 46-47, with the generator raising in _pulse_once:
\* before the trigger took effect (lines 28-29, the wheel stays) or after
\* it (line 31, the wheel has moved).  Nothing catches the exception, so
\* it leaves go_to_slot.
go_to_slot_fault(moved) ==
    /\ pc = "go_to_slot"
    /\ impl = "none"
    /\ current_slot # target_slot
    /\ phys' = IF moved THEN PhysNext(phys) ELSE phys
    /\ current_slot' = FaultedSlot(current_slot)
    /\ ret' = Fault("go_to_slot", target_slot)
    /\ pc' = "idle"
    /\ target_slot' = 0
    /\ UNCHANGED <<slot_count, count, i, pulses, entry_slot, entry_phys>>
    /\ UNCHANGED calVars
    /\ UNCHANGED otherVars

NextFault ==
    \/ Next
    \/ \E moved \in BOOLEAN : go_to_slot_fault(moved)

SpecFault == Init /\ [][NextFault]_vars

----------------------------------------------------------------------------
(* flywheel.py with two threads sharing one controller.  Nothing in the    *)
(* class locks current_slot, and the interpreter may switch threads        *)
(* between any two reads or writes of it (and does during time.sleep), so  *)
(* each read and each write of self.current_slot is a step of its own.     *)
(* Here pulses counts the pulses issued since construction.                *)

\* no thread issues a pulse once this many have been issued
ConcPulses == 3

\* wraps one slot early
WrapsEarly(c) == c >= slot_count

\* _pulse_once, line 35: the test that decides the wrap
Wraps(c) == c > slot_count

concFrame ==
    /\ UNCHANGED <<slot_count, pc, target_slot, count, i, ret,
                   entry_slot, entry_phys>>
    /\ UNCHANGED calVars
    /\ UNCHANGED streamVars

\* thread t is at `at` and moves to `to`
Goes(t, at, to) ==
    /\ th[t].pc = at
    /\ th' = [th EXCEPT ![t].pc = to]

\* where thread t continues when its _pulse_once returns: in the loop of
\* go_to_slot, or in its caller
AfterPulse(t) == IF th[t].op = "go_to_slot" THEN "test" ELSE "idle"

\* thread t calls _pulse_once
t_pulse_once(t) ==
    /\ th[t].pc = "idle"
    /\ th' = [th EXCEPT ![t] = [pc |-> "trigger", op |-> "_pulse_once",
                                target |-> 0, tmp |-> 0, ran |-> TRUE,
                                bad |-> @.bad]]
    /\ UNCHANGED <<current_slot, phys, pulses>>
    /\ concFrame

\* thread t calls go_to_slot(target), lines 43-44, with a valid target
t_go_to_slot(t, target) ==
    /\ th[t].pc = "idle"
    /\ Valid(target)
    /\ th' = [th EXCEPT ![t] = [pc |-> "test", op |-> "go_to_slot",
                                target |-> target, tmp |-> 0, ran |-> TRUE,
                                bad |-> @.bad]]
    /\ UNCHANGED <<current_slot, phys, pulses>>
    /\ concFrame

\* go_to_slot, line 46: the loop test reads current_slot
t_test(t) ==
    /\ Goes(t, "test", IF current_slot # th[t].target THEN "trigger"
                                                        ELSE "return")
    /\ UNCHANGED <<current_slot, phys, pulses>>
    /\ concFrame

\* _pulse_once, lines 28-31: the pulse and the settle time
t_trigger(t) ==
    /\ pulses < ConcPulses
    /\ Goes(t, "trigger", "load")
    /\ phys' = PhysNext(phys)
    /\ pulses' = pulses + 1
    /\ UNCHANGED current_slot
    /\ concFrame

\* _pulse_once, line 34: self.current_slot += 1 reads ...
t_load(t) ==
    /\ th[t].pc = "load"
    /\ th' = [th EXCEPT ![t].pc = "store", ![t].tmp = current_slot]
    /\ UNCHANGED <<current_slot, phys, pulses>>
    /\ concFrame

\* ... and then writes
t_store(t) ==
    /\ th[t].pc = "store"
    /\ current_slot' = th[t].tmp + 1
    /\ th' = [th EXCEPT ![t].pc = "check", ![t].tmp = 0]
    /\ UNCHANGED <<phys, pulses>>
    /\ concFrame

\* _pulse_once, line 35: the wrap test reads current_slot again
t_check(t) ==
    /\ Goes(t, "check", IF Wraps(current_slot) THEN "wrap" ELSE AfterPulse(t))
    /\ UNCHANGED <<current_slot, phys, pulses>>
    /\ concFrame

\* _pulse_once, line 36: self.current_slot = 1
t_wrap(t) ==
    /\ Goes(t, "wrap", AfterPulse(t))
    /\ current_slot' = 1
    /\ UNCHANGED <<phys, pulses>>
    /\ concFrame

\* go_to_slot, line 51: return self.current_slot, read once more; bad
\* records a return with current_slot different from the target
t_return(t) ==
    /\ th[t].pc = "return"
    /\ th' = [th EXCEPT ![t] = ThreadIdle(TRUE,
                                 @.bad \/ current_slot # th[t].target)]
    /\ UNCHANGED <<current_slot, phys, pulses>>
    /\ concFrame

NextConc ==
    \E t \in Threads :
        \/ t_pulse_once(t)
        \/ \E target \in SlotArgs(slot_count) : t_go_to_slot(t, target)
        \/ t_test(t)
        \/ t_trigger(t)
        \/ t_load(t)
        \/ t_store(t)
        \/ t_check(t)
        \/ t_wrap(t)
        \/ t_return(t)

SpecConc == Init /\ [][NextConc]_vars

----------------------------------------------------------------------------
(* spectrometer.py: CCS_Spectrometer.start_continuous_stream and           *)
(* stop_continuous_stream, called by one caller, and the polling threads   *)
(* they create                                                             *)

ctlVars == <<slot_count, current_slot, phys, pc, target_slot, count, i, ret,
             pulses, entry_slot, entry_phys>>

streamFrame ==
    /\ UNCHANGED ctlVars
    /\ UNCHANGED calVars
    /\ UNCHANGED th

\* a thread that has been started and whose loop() has not ended
Alive(w) == workers[w].pc \in {"test", "get", "callback", "sleep"}

AliveWorkers == {w \in WorkerIds : Alive(w)}

Unborn == {w \in WorkerIds : workers[w].pc = "unborn"}

\* the number the next thread gets
NextWorker == CHOOSE w \in Unborn : \A v \in Unborn : w <= v

Did(o, e, c) == [op |-> o, effect |-> e, cb |-> c]

\* no guard at all
StartReturnsNever(flag) == FALSE

\* start_continuous_stream, lines 85-86: if self.streaming: return
StartReturnsEarly(flag) == flag

\* start_continuous_stream(c), lines 84-86
start_continuous_stream(c) ==
    /\ mpc = "idle"
    /\ IF StartReturnsEarly(streaming)
         THEN /\ last' = Did("start", "noop", c)
              /\ UNCHANGED <<mpc, cb_arg>>
         ELSE /\ Unborn # {}
              /\ mpc' = "start_clear"
              /\ cb_arg' = c
              /\ UNCHANGED last
    /\ UNCHANGED <<streaming, stop_event, scan_thread, workers>>
    /\ streamFrame

\* line 94: self._stop_event.clear()
start_clear ==
    /\ mpc = "start_clear"
    /\ stop_event' = FALSE
    /\ mpc' = "start_flag"
    /\ UNCHANGED <<streaming, scan_thread, workers, cb_arg, last>>
    /\ streamFrame

\* line 95: self.streaming = True
start_flag ==
    /\ mpc = "start_flag"
    /\ streaming' = TRUE
    /\ mpc' = "start_spawn"
    /\ UNCHANGED <<stop_event, scan_thread, workers, cb_arg, last>>
    /\ streamFrame

\* lines 96-97: a new thread runs loop() with the callback of this call
start_spawn ==
    /\ mpc = "start_spawn"
    /\ workers' = [workers EXCEPT ![NextWorker] = [pc |-> "test",
                                                   cb |-> cb_arg]]
    /\ scan_thread' = NextWorker
    /\ mpc' = "idle"
    /\ last' = Did("start", "spawned", cb_arg)
    /\ UNCHANGED <<streaming, stop_event, cb_arg>>
    /\ streamFrame

\* stop_continuous_stream, line 100: self._stop_event.set()
stop_continuous_stream ==
    /\ mpc = "idle"
    /\ stop_event' = TRUE
    /\ mpc' = "stop_join"
    /\ UNCHANGED <<streaming, scan_thread, workers, cb_arg, last>>
    /\ streamFrame

\* returns while the thread still runs
JoinReturnsAtOnce(w) == TRUE

\* Thread.join, line 102: returns once the thread's loop() has ended
JoinReturns(w) == ~Alive(w)

\* lines 101-102: join scan_thread unless it is None
stop_join ==
    /\ mpc = "stop_join"
    /\ scan_thread # 0 => JoinReturns(scan_thread)
    /\ mpc' = "stop_flag"
    /\ UNCHANGED <<streaming, stop_event, scan_thread, workers, cb_arg, last>>
    /\ streamFrame

\* line 103: self.streaming = False
stop_flag ==
    /\ mpc = "stop_flag"
    /\ streaming' = FALSE
    /\ mpc' = "idle"
    /\ last' = Did("stop", "none", "none")
    /\ UNCHANGED <<stop_event, scan_thread, workers, cb_arg>>
    /\ streamFrame

\* what a step of a polling thread leaves alone
pollFrame ==
    /\ UNCHANGED <<streaming, stop_event, scan_thread, mpc, cb_arg, last>>
    /\ streamFrame

\* never looks at the event
LoopContinuesAlways(ev) == TRUE

\* loop(), line 89: while not self._stop_event.is_set()
LoopContinues(ev) == ~ev

\* line 89: the loop test; loop() returns when the event is set
w_test(w) ==
    /\ workers[w].pc = "test"
    /\ workers' = [workers EXCEPT
                     ![w].pc = IF LoopContinues(stop_event) THEN "get"
                                                            ELSE "dead"]
    /\ pollFrame

\* line 90: get_spectrum returns, or raises and ends the thread
w_get(w, ok) ==
    /\ workers[w].pc = "get"
    /\ workers' = [workers EXCEPT
                     ![w].pc = IF ok THEN "callback" ELSE "crashed"]
    /\ pollFrame

\* line 91: the callback returns, or raises and ends the thread
w_callback(w, ok) ==
    /\ workers[w].pc = "callback"
    /\ workers' = [workers EXCEPT
                     ![w].pc = IF ok THEN "sleep" ELSE "crashed"]
    /\ pollFrame

\* line 92: time.sleep(delay)
w_sleep(w) ==
    /\ workers[w].pc = "sleep"
    /\ workers' = [workers EXCEPT ![w].pc = "test"]
    /\ pollFrame

WorkerStep(w) ==
    \/ w_test(w)
    \/ \E ok \in BOOLEAN : w_get(w, ok)
    \/ \E ok \in BOOLEAN : w_callback(w, ok)
    \/ w_sleep(w)

InitStream ==
    /\ Construct(DefaultSlotCount, DefaultInitialSlot)
    /\ pc = "idle"
    /\ impl = "none"
    /\ measurements = << >>
    /\ max_power = 0
    /\ slot_1 = 0
    /\ samples = << >>
    /\ mirror_phys = -1
    /\ th = NoThreads
    /\ StreamInit

NextStream ==
    \/ \E c \in Callbacks : start_continuous_stream(c)
    \/ start_clear
    \/ start_flag
    \/ start_spawn
    \/ stop_continuous_stream
    \/ stop_join
    \/ stop_flag
    \/ \E w \in WorkerIds : WorkerStep(w)

SpecStream == InitStream /\ [][NextStream]_vars

\* every started thread keeps running (get_spectrum, the callback and the
\* sleep come back), and the caller inside stop_continuous_stream goes on
SpecStreamFair ==
    /\ SpecStream
    /\ \A w \in WorkerIds : WF_vars(WorkerStep(w))
    /\ WF_vars(stop_join)
    /\ WF_vars(stop_flag)

----------------------------------------------------------------------------
(* Properties of the controller, checked under Spec *)

InRange(s) == s \in 1..slot_count

GoToReturned == pc = "idle" /\ ret.op = "go_to_slot" /\ ret.kind = "return"

\* C1: for slot_count >= 2, a go_to_slot(t) with t in 1..slot_count that
\* starts from a slot in 1..slot_count terminates after at most
\* slot_count - 1 calls of _pulse_once, and on return current_slot = t,
\* which is also the value returned.  Every iteration of the loop issues
\* one pulse, so the bound on pulses while the loop still has to run is the
\* termination argument: the loop is never entered with slot_count - 1
\* pulses already issued.
C1_GoToSlotBounded ==
    (slot_count >= 2 /\ InRange(entry_slot)) =>
        /\ pc = "go_to_slot" =>
              /\ InRange(target_slot)
              /\ pulses <= slot_count - 1
              /\ current_slot # target_slot => pulses < slot_count - 1
        /\ GoToReturned =>
              /\ pulses <= slot_count - 1
              /\ current_slot = ret.arg
              /\ ret.val = ret.arg

\* a go_to_slot that needed the worst case of slot_count - 1 pulses returned
C1_Witness ==
    /\ GoToReturned
    /\ slot_count = DefaultSlotCount
    /\ InRange(entry_slot)
    /\ pulses = slot_count - 1
    /\ current_slot = ret.arg

\* C2: in every reachable state current_slot is an integer in
\* 1..slot_count (from construction with a caller-supplied initial_slot
\* onward, after any sequence of calls).
C2_SlotAlwaysInRange == current_slot \in 1..slot_count

\* C3: go_to_slot or reset_slot called with an argument outside
\* 1..slot_count fails with the invalid-slot error, issues no pulse and
\* leaves current_slot (and the wheel) as it was before the call; and no
\* other call fails with that error.
C3_InvalidSlotRejected ==
    /\ (ret.op \in {"go_to_slot", "reset_slot"} /\ ~InRange(ret.arg)) =>
          /\ ret.kind = "ValueError"
          /\ pc = "idle"
          /\ pulses = 0
          /\ current_slot = entry_slot
          /\ phys = entry_phys
    /\ ret.kind = "ValueError" =>
          /\ ret.op \in {"go_to_slot", "reset_slot"}
          /\ ~InRange(ret.arg)

\* both calls have been rejected: one argument <= 0, one > slot_count
C3_Witness ==
    /\ ret.kind = "ValueError"
    /\ ret.op = "go_to_slot"
    /\ ret.arg > slot_count
    /\ current_slot = entry_slot
    /\ current_slot # DefaultInitialSlot

C3_WitnessReset ==
    /\ ret.kind = "ValueError"
    /\ ret.op = "reset_slot"
    /\ ret.arg <= 0

PulseRun == pc = "idle" /\ ret.op = "_pulse_once"

\* C8: from every starting slot s in 1..slot_count, a run of consecutive
\* _pulse_once calls has current_slot back at s after exactly slot_count
\* calls (and again after every further slot_count calls), and after no
\* smaller number of calls.
C8_RingClosure ==
    (PulseRun /\ InRange(entry_slot)) =>
        /\ pulses >= 1
        /\ (current_slot = entry_slot) <=> (pulses % slot_count = 0)
        /\ phys = (entry_phys + pulses) % slot_count

\* a run of exactly slot_count calls has closed the ring of six slots
C8_Witness ==
    /\ PulseRun
    /\ slot_count = DefaultSlotCount
    /\ InRange(entry_slot)
    /\ pulses = slot_count
    /\ current_slot = entry_slot

StepReturned == pc = "idle" /\ ret.op = "step" /\ ret.kind = "return"

\* C9: for every count >= 0 and every starting slot, step(count) issues
\* exactly count mod slot_count pulses and ends in the current_slot that
\* count mod slot_count sequential _pulse_once calls lead to; a count that
\* is a multiple of slot_count issues no pulse.
C9_StepIsCountModN ==
    /\ pc = "step" =>
          /\ pulses = i
          /\ i <= count % slot_count
          /\ current_slot = PulseN(entry_slot, i)
    /\ StepReturned =>
          /\ pulses = ret.arg % slot_count
          /\ current_slot = PulseN(entry_slot, ret.arg % slot_count)
          /\ phys = (entry_phys + ret.arg) % slot_count
          /\ (ret.arg % slot_count = 0) =>
                (pulses = 0 /\ current_slot = entry_slot /\ phys = entry_phys)

\* a step of more than one full turn has returned after count mod N pulses
C9_Witness ==
    /\ StepReturned
    /\ slot_count = DefaultSlotCount
    /\ ret.arg > slot_count
    /\ pulses = ret.arg - slot_count
    /\ pulses >= 1

\* step(k * slot_count) with k >= 1 has returned without a pulse
C9_WitnessFullTurn ==
    /\ StepReturned
    /\ ret.arg = 2 * slot_count
    /\ pulses = 0

\* C10: for every k in 1..slot_count, reset_slot(k) returns normally with
\* current_slot = k and without a pulse (the wheel and the pulse count are
\* as before the call); get_current_slot returns current_slot and changes
\* neither the belief nor the wheel.
C10_ResetAndReadAreMotionless ==
    /\ (ret.op = "reset_slot" /\ InRange(ret.arg)) =>
          /\ ret.kind = "return"
          /\ current_slot = ret.arg
          /\ pulses = 0
          /\ phys = entry_phys
    /\ ret.op = "get_current_slot" =>
          /\ ret.kind = "return"
          /\ ret.val = current_slot
          /\ current_slot = entry_slot
          /\ phys = entry_phys
          /\ pulses = 0

\* reset_slot(k) has changed the belief to a k other than the slot held
\* before, while the wheel stood away from its construction position
C10_Witness ==
    /\ ret.op = "reset_slot"
    /\ ret.kind = "return"
    /\ current_slot = ret.arg
    /\ current_slot # entry_slot
    /\ phys # 0

C10_WitnessRead ==
    /\ ret.op = "get_current_slot"
    /\ ret.val = current_slot
    /\ phys # 0

----------------------------------------------------------------------------
(* Properties of calibration, checked under SpecCal *)

SamplePowers == {samples[k].power : k \in 1..Len(samples)}

\* the maximum of the readings recorded so far
MaxReading == CHOOSE m \in SamplePowers : \A q \in SamplePowers : q <= m

\* the samples at which the maximum was read
MaxIndexes == {k \in 1..Len(samples) : samples[k].power = MaxReading}

\* the first of them in rotation order
FirstMaxIndex == CHOOSE k \in MaxIndexes : \A j \in MaxIndexes : k <= j

\* the sampling loop has ended and go_to_slot has not been called yet
SamplingDone ==
    \/ pc = "cal_loop" /\ i = slot_count
    \/ pc = "cal_go_to"

\* a slot has been selected
Selected == pc \in {"cal_go_to", "go_to_slot", "cal_reset", "cal_done",
                    "cal_raised"}

\* C4: at the end of the calibration routine the wheel sits on the
\* physical slot at which the selected maximum power was sampled and
\* current_slot = 1; for slot_count = 6, start slot 1 and readings whose
\* only maximum is the 3rd sample, the wheel ends two positions forward of
\* where it started (original physical slot 3).
C4_CalibrationEndsOnMaxSlot ==
    pc = "cal_done" =>
        /\ current_slot = 1
        /\ \E k \in MaxIndexes :
              samples[k].slot = slot_1 /\ samples[k].phys = phys
        /\ (slot_count = 6 /\ samples[1].slot = 1 /\ MaxIndexes = {3}) =>
              phys = 2

\* C5: for every sequence of slot_count readings (zero and negative ones
\* included), each calibration routine selects a slot whose recorded power
\* equals the maximum of all recorded readings.
C5_SelectsMaxPowerSlot ==
    Selected => \E k \in MaxIndexes : samples[k].slot = slot_1

\* C6: when the maximum reading occurs at two or more slots, the slot
\* selected is the one of them that was sampled first.
C6_FirstMaxWinsTie ==
    (Selected /\ Cardinality(MaxIndexes) >= 2) =>
        slot_1 = samples[FirstMaxIndex].slot

\* C7: the sampling phase takes exactly slot_count samples and issues
\* exactly slot_count advances, each sample recorded with the slot number
\* held before the advance that follows it, and after the last advance the
\* wheel and current_slot are back where they were when calibration began.
C7_SamplingIsOneFullRotation ==
    SamplingDone =>
        /\ Len(samples) = slot_count
        /\ pulses = slot_count
        /\ \A k \in 1..Len(samples) :
              /\ samples[k].slot = PulseN(entry_slot, k - 1)
              /\ samples[k].phys = (entry_phys + k - 1) % slot_count
        /\ impl # "testing" =>
              measurements = [k \in 1..Len(samples) |->
                                 <<samples[k].slot, samples[k].power>>]
        /\ phys = entry_phys
        /\ current_slot = entry_slot

(* What remains true of the code where the claims above fail *)

\* the routines of utils.py and configure_fw.py select the first slot
\* holding the maximum, and so does testing.py when a reading is positive
SelectsFirstMaxUnlessNonPositive ==
    (Selected /\ (impl # "testing" \/ MaxReading > 0)) =>
        slot_1 = samples[FirstMaxIndex].slot

\* calibration ends on the wheel position where the selected slot was sampled
EndsWhereSelectedSlotWasSampled ==
    pc = "cal_done" =>
        /\ current_slot = 1
        /\ \E k \in 1..Len(samples) :
              samples[k].slot = slot_1 /\ samples[k].phys = phys

\* from a start slot in 1..slot_count the sampling is one full rotation
FullRotationFromValidStart ==
    InRange(entry_slot) => C7_SamplingIsOneFullRotation

\* calibration raises only when it was handed a controller whose
\* current_slot was out of range
RaisesOnlyFromInvalidStart ==
    pc = "cal_raised" => ~InRange(samples[1].slot)

----------------------------------------------------------------------------
(* More properties of the controller, checked under Spec *)

\* C11: go_to_slot(t) from slot s issues exactly (t - s) mod slot_count
\* pulses, the least a forward-only wheel allows; go_to_slot(s) from slot s
\* issues no pulse and leaves belief and wheel unchanged.
C11_GoToSlotMinimalPulses ==
    GoToReturned =>
        /\ pulses = (ret.arg - entry_slot) % slot_count
        /\ phys = (entry_phys + pulses) % slot_count
        /\ ret.arg = entry_slot =>
              (pulses = 0 /\ current_slot = entry_slot /\ phys = entry_phys)

\* from a start slot in 1..slot_count the pulse count is the minimal one
MinimalPulsesFromValidStart ==
    InRange(entry_slot) => C11_GoToSlotMinimalPulses

\* the offset between belief and wheel, modulo slot_count
Offset(belief, wheel) == (belief - wheel) % slot_count

\* C16: in fault-free single-threaded use _pulse_once, go_to_slot and step
\* (and the read get_current_slot) preserve the offset
\* (current_slot - physical position) mod slot_count: every increment of
\* the belief is paired with one pulse, so only reset_slot changes it.
C16_OffsetPreserved ==
    ret.op \in {"_pulse_once", "go_to_slot", "step", "get_current_slot"} =>
        Offset(current_slot, phys) = Offset(entry_slot, entry_phys)

\* from a start slot in 1..slot_count the offset is preserved
OffsetPreservedFromValidStart ==
    InRange(entry_slot) => C16_OffsetPreserved

\* reset_slot is what changes the offset
ResetChangesOffset ==
    /\ ret.op = "reset_slot"
    /\ ret.kind = "return"
    /\ Offset(current_slot, phys) # Offset(entry_slot, entry_phys)

----------------------------------------------------------------------------
(* Properties of a faulting device, checked under SpecFault *)

\* C13: a device fault during one of the pulses of go_to_slot leaves
\* go_to_slot at once (no retry, no further pulse) and current_slot keeps
\* the value it had after the last pulse that completed: the faulting
\* _pulse_once does not increment it, whether the wheel had moved or not.
C13_FaultKeepsLastBelief ==
    ret.kind = "DeviceFault" =>
        /\ pc = "idle"
        /\ ret.op = "go_to_slot"
        /\ current_slot = PulseN(entry_slot, pulses)
        /\ \/ phys = (entry_phys + pulses) % slot_count
           \/ phys = (entry_phys + pulses + 1) % slot_count

\* the third pulse of a go_to_slot faulted after the wheel had moved
C13_Witness ==
    /\ ret.kind = "DeviceFault"
    /\ slot_count = DefaultSlotCount
    /\ pulses = 2
    /\ current_slot = PulseN(entry_slot, 2)
    /\ phys = (entry_phys + 3) % slot_count

\* the fault came before the wheel moved
C13_WitnessBeforeMotion ==
    /\ ret.kind = "DeviceFault"
    /\ pulses = 1
    /\ phys = (entry_phys + 1) % slot_count
    /\ slot_count > 2

----------------------------------------------------------------------------
(* Properties of the numbering after calibration, checked under SpecCal *)

Calibrated == mirror_phys # -1

\* C12: after calibration slot numbers are relative to the mirror slot:
\* for every k in 1..slot_count, go_to_slot(k) leaves the wheel k - 1
\* positions (mod slot_count) past the position calibration selected, and
\* the belief stays anchored this way through any further go_to_slot and
\* step calls.
C12_NumberingRelativeToMirror ==
    Calibrated =>
        /\ phys = (mirror_phys + current_slot - 1) % slot_count
        /\ GoToReturned =>
              /\ current_slot = ret.arg
              /\ phys = (mirror_phys + ret.arg - 1) % slot_count

\* after calibration on the third position and a step, go_to_slot(5) has
\* brought the wheel four positions past the mirror
C12_Witness ==
    /\ Calibrated
    /\ GoToReturned
    /\ slot_count = DefaultSlotCount
    /\ mirror_phys = 2
    /\ ret.arg = 5
    /\ phys = 0
    /\ pulses = 3

----------------------------------------------------------------------------
(* Properties of a controller's lifetime, checked under SpecLife *)

\* this step issues a pulse: the wheel moves and the pulse is counted
PulseStep ==
    /\ phys' = PhysNext(phys)
    /\ pulses' # pulses \/ ret'.op = "_pulse_once"

\* this step is a reset_slot(k) that returns normally
ResetStep ==
    /\ ret'.op = "reset_slot"
    /\ ret'.kind = "return"
    /\ current_slot' = ret'.arg
    /\ phys' = phys

\* this step is the re-anchoring that ends calibration
AnchorStep ==
    /\ pc = "cal_reset"
    /\ current_slot' = CalAnchor
    /\ phys' = phys

\* C14: over the lifetime of a controller current_slot is mutated only by
\* the physical advance-one-slot operation: no step changes current_slot
\* without issuing a pulse.
C14_OnlyPulsesMutate ==
    [][current_slot' # current_slot => PulseStep]_vars

\* C14 as amended: current_slot is mutated only by the physical
\* advance-one-slot operation, by reset_slot(k), which sets it to k, and by
\* the re-anchoring at the end of calibration, which sets it to 1; the
\* latter two issue no pulse.
C14_OnlyPulsesAndResetsMutate ==
    [][current_slot' # current_slot => PulseStep \/ ResetStep \/ AnchorStep]_vars

\* calibration has renumbered the selected slot 3 as slot 1 without a pulse
C14_Witness ==
    /\ pc = "cal_done"
    /\ slot_1 = 3
    /\ current_slot = CalAnchor
    /\ pulses = 2
    /\ phys = 2

----------------------------------------------------------------------------
(* Properties of a shared controller, checked under SpecConc *)

\* no thread is inside a method of the controller
Quiescent == \A t \in Threads : th[t].pc = "idle"

\* the threads that have called the controller
Ran == {t \in Threads : th[t].ran}

\* the belief is the start slot advanced by the pulses issued
BeliefMatchesPulses == current_slot = PulseN(entry_slot, pulses)

\* C15: the position state is not protected against concurrent mutation.
\* With a single thread of control, whenever no call is in progress
\* current_slot is the start slot advanced by the number of pulses issued,
\* and every go_to_slot returns with current_slot equal to its target;
\* with two threads interleaving _pulse_once / go_to_slot on one
\* controller both can fail (C15_Witness, C15_WitnessReturn are reached).
C15_SingleThreadConsistent ==
    Cardinality(Ran) <= 1 =>
        /\ Quiescent => BeliefMatchesPulses
        /\ \A t \in Threads : ~th[t].bad

\* two threads have pulsed a controller that started on a valid slot, and
\* an increment is lost: the belief is behind the pulses issued
C15_Witness ==
    /\ Quiescent
    /\ Ran = Threads
    /\ InRange(entry_slot)
    /\ InRange(current_slot)
    /\ pulses = 2
    /\ current_slot = PulseN(entry_slot, 1)
    /\ ~BeliefMatchesPulses

\* a go_to_slot has returned with current_slot different from its target
C15_WitnessReturn ==
    /\ Quiescent
    /\ InRange(entry_slot)
    /\ \E t \in Threads : th[t].bad

----------------------------------------------------------------------------
(* Properties of the spectrometer's continuous stream, checked under       *)
(* SpecStream and SpecStreamFair                                           *)

InStartBody == mpc \in {"start_clear", "start_flag", "start_spawn"}

\* C17: with a single caller at most one polling thread is alive at any
\* time: the one alive is the thread scan_thread names and runs the
\* callback of the start that spawned it, so a start made while streaming
\* spawns nothing and replaces no callback; and the body of a start that
\* will spawn runs only when no polling thread is alive, after the stop
\* that joined the previous one has returned.
C17_AtMostOneThread ==
    /\ Cardinality(AliveWorkers) <= 1
    /\ \A w \in AliveWorkers : w = scan_thread /\ workers[w].cb = cb_arg
    /\ InStartBody => AliveWorkers = {}
    /\ InStartBody /\ scan_thread # 0 => last.op = "stop"

\* a second thread, spawned after a stop, is alive and keeps its callback
\* after a start with another callback returned without effect
C17_Witness ==
    \E w \in AliveWorkers :
        /\ w >= 2
        /\ mpc = "idle"
        /\ last.op = "start"
        /\ last.effect = "noop"
        /\ last.cb # workers[w].cb

StopReturned == last.op = "stop"

\* C18: under fair scheduling of the polling thread and of the caller,
\* a stop_continuous_stream that was called returns; once it has returned,
\* and until a later start spawns, no polling thread is alive (so no
\* callback is invoked) and streaming is False between calls; a stop with
\* no thread ever started does not wait at the join.
C18_StopTerminates ==
    /\ [](StopReturned => AliveWorkers = {})
    /\ [](StopReturned /\ mpc = "idle" => ~streaming)
    /\ [](mpc = "stop_join" /\ scan_thread = 0 => ENABLED stop_join)
    /\ (mpc = "stop_join") ~> (mpc = "idle" /\ StopReturned)

\* stop returned after joining a thread that left its loop at the test
C18_Witness ==
    /\ StopReturned
    /\ mpc = "idle"
    /\ scan_thread # 0
    /\ workers[scan_thread].pc = "dead"

\* stop returned although no stream was ever started
C18_WitnessNoStream ==
    /\ StopReturned
    /\ mpc = "idle"
    /\ scan_thread = 0

\* C19: between calls, whenever streaming is True a polling thread is
\* alive.
C19_StreamingMeansAlive ==
    streaming /\ mpc = "idle" => AliveWorkers # {}

\* streaming is True with no thread alive only after get_spectrum or the
\* callback raised in the thread
StreamingDeadOnlyByException ==
    streaming /\ mpc = "idle" /\ AliveWorkers = {}
        => scan_thread # 0 /\ workers[scan_thread].pc = "crashed"

\* a start returned without effect although no polling thread is alive
StartIgnoredWhileDead ==
    /\ mpc = "idle"
    /\ last.op = "start"
    /\ last.effect = "noop"
    /\ AliveWorkers = {}

====
